---- MODULE Spec2Model ----
(***************************************************************************)
(* Model of the markdown cleanup / EPUB pipeline:                          *)
(*   clean_markdown.py  (filename normaliser, content cleaner, fetcher)    *)
(*   build_epub.py      (chapter enumeration, cover selection)             *)
(*                                                                         *)
(* Text is a sequence of tokens.  The markup characters ! [ ] ( ) # the    *)
(* space and the newline are one token each; every other token is a short  *)
(* literal ("http://", ".png", "images/", ".md", a letter, a digit) that   *)
(* holds no markup character, so the regular expressions of the source act *)
(* on token sequences exactly as they act on the concatenated characters.  *)
(***************************************************************************)
EXTENDS Integers, Sequences, FiniteSets, TLC

VARIABLES
    pc,                 \* position of the running script
    content, title,     \* clean_content: arguments
    lines, idx,         \* clean_content: content.split('\n') and loop index
    cleaned_lines, found_first_heading,
    line, pos, acc,     \* re.sub in progress: subject, scan position, output so far
    images,             \* names of the files in the images directory
    fetches,            \* URLs handed to urllib.request.urlretrieve, in order
    log,                \* one record per replacement callback / download_image call
    result,             \* value returned by the function under study
    filenames, common_prefix, common_suffix,
    book_dir,           \* the markdown files of the source directory, in os.walk order
    files, chapter_num,
    dest,               \* the files written to the destination directory
    md_files, cover_image_name, cover

cleanVars == <<content, title, lines, idx, cleaned_lines, found_first_heading,
               line, pos, acc>>
fetchVars == <<images, fetches, log>>
nameVars  == <<filenames, common_prefix, common_suffix>>
bookVars  == <<book_dir, files, chapter_num, dest>>
epubVars  == <<md_files, cover_image_name, cover>>
vars == <<pc, cleanVars, fetchVars, result, nameVars, bookVars, epubVars>>

----------------------------------------------------------------------------
(* Bounds of the model                                                     *)

MaxItems == 2       \* markup items per chapter text (Spec)
MaxLines == 6       \* lines per chapter text (SpecBlank)
MaxCalls == 3       \* download_image calls (SpecFetch)
MaxNames == 3       \* filenames per list (SpecNames)
MaxFiles == 2       \* markdown files of a small book (SpecBook)
MaxMtime == 2       \* distinct modification times of a small book (SpecBook)
LongBook == 100     \* markdown files of the long book (SpecBook)
MaxHeadingLines == 3  \* lines of a text of headings (SpecHeading)
MaxChapters == 2    \* chapter files of a cleaned book (SpecEpub)

----------------------------------------------------------------------------
(* Strings                                                                 *)

None == <<>>        \* Python None / the empty string: both are falsy

Min(S) == CHOOSE x \in S : \A y \in S : x <= y

Max(S) == CHOOSE x \in S : \A y \in S : x >= y

Last(s) == s[Len(s)]

StartsWith(s, p) == Len(s) >= Len(p) /\ SubSeq(s, 1, Len(p)) = p

EndsWith(s, p) == Len(s) >= Len(p) /\ SubSeq(s, Len(s) - Len(p) + 1, Len(s)) = p

IsSpace(t) == t \in {" ", "\n"}

RECURSIVE LStrip(_)
LStrip(s) == IF s # <<>> /\ IsSpace(Head(s)) THEN LStrip(Tail(s)) ELSE s

RECURSIVE RStrip(_)
RStrip(s) ==
    IF s # <<>> /\ IsSpace(Last(s)) THEN RStrip(SubSeq(s, 1, Len(s) - 1)) ELSE s

Strip(s) == LStrip(RStrip(s))

\* str.split('\n'): one more piece than there are newlines
RECURSIVE Split(_)
Split(s) ==
    LET nls == {i \in 1..Len(s) : s[i] = "\n"}
    IN  IF nls = {} THEN <<s>>
        ELSE <<SubSeq(s, 1, Min(nls) - 1)>> \o Split(SubSeq(s, Min(nls) + 1, Len(s)))

\* '\n'.join(...)
RECURSIVE Join(_)
Join(ls) ==
    IF ls = <<>> THEN <<>>
    ELSE IF Len(ls) = 1 THEN ls[1]
    ELSE ls[1] \o <<"\n">> \o Join(Tail(ls))

RECURSIVE Concat(_)
Concat(ss) == IF ss = <<>> THEN <<>> ELSE Head(ss) \o Concat(Tail(ss))

----------------------------------------------------------------------------
(* URLs and the image fetcher                                              *)

HttpSchemes == {"http://"}

\* url.startswith('http')
StartsWithHttp(url) == url # <<>> /\ url[1] \in HttpSchemes

\* url.startswith('#')
StartsWithHash(url) == url # <<>> /\ url[1] = "#"

ImageExts == {".jpg", ".jpeg", ".png", ".gif", ".webp", ".svg"}

Lower(t) == IF t = ".PNG" THEN ".png" ELSE t

\* any(url.lower().endswith(ext) for ext in [...]): the test reads the whole
\* URL string, query and fragment included
EndsWithImageExt(url) == url # <<>> /\ Lower(Last(url)) \in ImageExts

\* the tokens that start with a dot
Dotted == {".png", ".PNG", ".gif", ".jpg", ".jpeg", ".webp", ".svg", ".md"}

\* urlparse(url).path of an http URL: from the first "/" after the host up
\* to the first "?" or "#"
UrlPath(url) ==
    LET n == Len(url)
        slashes == {i \in 2..n : url[i] = "/"}
        cuts == {i \in 2..n : url[i] \in {"?", "#"}}
        stop == IF cuts = {} THEN n ELSE Min(cuts) - 1
        from == IF slashes = {} THEN n + 1 ELSE Min(slashes)
    IN  IF StartsWithHttp(url) THEN SubSeq(url, from, stop)
        ELSE SubSeq(url, 1, IF {i \in 1..n : url[i] \in {"?", "#"}} = {} THEN n
                               ELSE Min({i \in 1..n : url[i] \in {"?", "#"}}) - 1)

\* os.path.splitext(path)[1]: the last dotted part of the last component,
\* unless the component starts with it
SplitExt(path) ==
    IF Len(path) >= 2 /\ Last(path) \in Dotted /\ path[Len(path) - 1] # "/"
    THEN Last(path) ELSE ""

Alphabet == <<"!", "[", "]", "(", ")", "#", " ", "\n", "a", "b", "h", "p", "q",
              "/", "?", "http://", ".png", ".PNG", "images/", "T">>

Code(t) == IF \E i \in 1..Len(Alphabet) : Alphabet[i] = t
           THEN CHOOSE i \in 1..Len(Alphabet) : Alphabet[i] = t ELSE 0

\* hashlib.md5(url.encode()).hexdigest()[:12]: a digest of the characters of
\* the URL; equal URLs have equal digests, and the URLs used here have
\* different ones.  Which of two digests sorts first is not md5's choice.
RECURSIVE Digest(_, _)
Digest(url, h) ==
    IF url = <<>> THEN h ELSE Digest(Tail(url), (h * 31 + Code(Head(url))) % 16777216)

DigitTokens == <<"0", "1", "2", "3", "4", "5", "6", "7", "8", "9">>

\* the digits of n, one token each
RECURSIVE Digits(_)
Digits(n) ==
    IF n < 10 THEN <<DigitTokens[n + 1]>>
    ELSE Digits(n \div 10) \o <<DigitTokens[(n % 10) + 1]>>

Md5(url) == Digits(Digest(url, 7))

LocalName(url) ==
    LET ext == SplitExt(UrlPath(url))
    IN  <<"image_">> \o Md5(url) \o <<IF ext = "" THEN ".jpg" ELSE ext>>

(* What urlretrieve can do: "ok" writes the file; "fail" raises before the *)
(* file is opened; "partial" raises after the file was opened for writing  *)
(* and leaves it behind.                                                   *)
Outcomes == {"ok", "fail", "partial"}

\* download_image that fetches without looking for the file first
DownloadImageNoCache(url, imgs, outcome) ==
    LET filename == LocalName(url)
    IN  IF outcome = "ok"
        THEN [ret |-> filename, images |-> imgs \cup {filename}, fetched |-> TRUE,
              outcome |-> "ok", raised |-> FALSE]
        ELSE [ret |-> None, images |-> imgs, fetched |-> TRUE,
              outcome |-> "fail", raised |-> FALSE]

\* download_image without its try block: a failed fetch raises
DownloadImageRaises(url, imgs, outcome) ==
    LET filename == LocalName(url)
    IN  IF filename \in imgs
        THEN [ret |-> filename, images |-> imgs, fetched |-> FALSE,
              outcome |-> "cached", raised |-> FALSE]
        ELSE IF outcome = "ok"
        THEN [ret |-> filename, images |-> imgs \cup {filename}, fetched |-> TRUE,
              outcome |-> "ok", raised |-> FALSE]
        ELSE [ret |-> None, images |-> imgs, fetched |-> TRUE,
              outcome |-> "fail", raised |-> TRUE]

\* download_image(url, images_dir) on a directory holding imgs.  The body is
\* one try block whose handler returns None: nothing is raised to the caller.
DownloadImage(url, imgs, outcome) ==
    LET filename == LocalName(url)
    IN  IF filename \in imgs
        THEN [ret |-> filename, images |-> imgs, fetched |-> FALSE,
              outcome |-> "cached", raised |-> FALSE]
        ELSE IF outcome = "ok"
        THEN [ret |-> filename, images |-> imgs \cup {filename}, fetched |-> TRUE,
              outcome |-> "ok", raised |-> FALSE]
        ELSE IF outcome = "partial"
        THEN [ret |-> None, images |-> imgs \cup {filename}, fetched |-> TRUE,
              outcome |-> "partial", raised |-> FALSE]
        ELSE [ret |-> None, images |-> imgs, fetched |-> TRUE,
              outcome |-> "fail", raised |-> FALSE]

----------------------------------------------------------------------------
(* Regular expressions.  "." matches any token but the newline; a lazy     *)
(* group takes the shortest text for which the rest of the pattern still   *)
(* matches, the first group deciding before the second.                    *)

NoMatch == [found |-> FALSE]

NoNewline(l, from, to) == \A i \in from..to : l[i] # "\n"

LexMin(S) ==
    LET p == Min({c[1] : c \in S})
    IN  <<p, Min({c[2] : c \in {d \in S : d[1] = p}})>>

\* !\[(.*?)\]\((.*?)\) anchored at s
ImageAt(l, s) ==
    LET n == Len(l)
        cands == {c \in (s + 2..n) \X (s + 4..n) :
                     /\ c[2] >= c[1] + 2
                     /\ l[c[1]] = "]" /\ l[c[1] + 1] = "(" /\ l[c[2]] = ")"
                     /\ NoNewline(l, s + 2, c[1] - 1)
                     /\ NoNewline(l, c[1] + 2, c[2] - 1)}
    IN  IF s + 1 <= n /\ l[s] = "!" /\ l[s + 1] = "[" /\ cands # {}
        THEN LET c == LexMin(cands)
             IN  [found |-> TRUE, start |-> s, end |-> c[2],
                  g0 |-> SubSeq(l, s, c[2]),
                  g1 |-> SubSeq(l, s + 2, c[1] - 1),
                  g2 |-> SubSeq(l, c[1] + 2, c[2] - 1)]
        ELSE NoMatch

\* (?<!!)\[(.*?)\]\((.*?)\) anchored at s
LinkAt(l, s) ==
    LET n == Len(l)
        cands == {c \in (s + 1..n) \X (s + 3..n) :
                     /\ c[2] >= c[1] + 2
                     /\ l[c[1]] = "]" /\ l[c[1] + 1] = "(" /\ l[c[2]] = ")"
                     /\ NoNewline(l, s + 1, c[1] - 1)
                     /\ NoNewline(l, c[1] + 2, c[2] - 1)}
    IN  IF s <= n /\ l[s] = "[" /\ (s = 1 \/ l[s - 1] # "!") /\ cands # {}
        THEN LET c == LexMin(cands)
             IN  [found |-> TRUE, start |-> s, end |-> c[2],
                  g0 |-> SubSeq(l, s, c[2]),
                  g1 |-> SubSeq(l, s + 1, c[1] - 1),
                  g2 |-> SubSeq(l, c[1] + 2, c[2] - 1)]
        ELSE NoMatch

\* https?://[^\)]+\) anchored at u: the index of the closing parenthesis, 0 if none
UrlEnd(l, u) ==
    LET n == Len(l)
        closes == {r \in u + 1..n : l[r] = ")"}
    IN  IF u <= n /\ l[u] \in HttpSchemes /\ closes # {} /\ Min(closes) >= u + 2
        THEN Min(closes) ELSE 0

\* \[(!\[.*?\]\(.*?\))\]\((https?://[^\)]+)\) anchored at s
NestedAt(l, s) ==
    LET n == Len(l)
        cands == {c \in (s + 3..n) \X (s + 5..n) :
                     /\ c[2] >= c[1] + 2 /\ c[2] + 3 <= n
                     /\ l[c[1]] = "]" /\ l[c[1] + 1] = "(" /\ l[c[2]] = ")"
                     /\ l[c[2] + 1] = "]" /\ l[c[2] + 2] = "("
                     /\ UrlEnd(l, c[2] + 3) # 0
                     /\ NoNewline(l, s + 3, c[1] - 1)
                     /\ NoNewline(l, c[1] + 2, c[2] - 1)}
    IN  IF s + 2 <= n /\ l[s] = "[" /\ l[s + 1] = "!" /\ l[s + 2] = "[" /\ cands # {}
        THEN LET c == LexMin(cands)
                 r == UrlEnd(l, c[2] + 3)
             IN  [found |-> TRUE, start |-> s, end |-> r,
                  g0 |-> SubSeq(l, s, r),
                  g1 |-> SubSeq(l, s + 1, c[2]),
                  g2 |-> SubSeq(l, c[2] + 3, r - 1)]
        ELSE NoMatch

\* the leftmost match that starts at or after from, as re.sub and re.search
\* find it
ImageSearch(l, from) ==
    LET ss == {s \in from..Len(l) : ImageAt(l, s).found}
    IN  IF ss = {} THEN NoMatch ELSE ImageAt(l, Min(ss))

LinkSearch(l, from) ==
    LET ss == {s \in from..Len(l) : LinkAt(l, s).found}
    IN  IF ss = {} THEN NoMatch ELSE LinkAt(l, Min(ss))

NestedSearch(l, from) ==
    LET ss == {s \in from..Len(l) : NestedAt(l, s).found}
    IN  IF ss = {} THEN NoMatch ELSE NestedAt(l, Min(ss))

\* re.search(r'!\[(.*?)\]', image_markdown): group 1, "" when there is no match
AltText(image_markdown) ==
    LET n == Len(image_markdown)
        ms == {c \in (1..n) \X (1..n) :
                  /\ c[2] >= c[1] + 2
                  /\ image_markdown[c[1]] = "!" /\ image_markdown[c[1] + 1] = "["
                  /\ image_markdown[c[2]] = "]"
                  /\ NoNewline(image_markdown, c[1] + 2, c[2] - 1)}
    IN  IF ms = {} THEN <<>>
        ELSE LET c == LexMin(ms) IN SubSeq(image_markdown, c[1] + 2, c[2] - 1)

\* f"![{alt}](images/{local_filename})"
LocalImage(alt, local_filename) ==
    <<"!", "[">> \o alt \o <<"]", "(", "images/">> \o local_filename \o <<")">>

\* re.sub(r'\n\n\n+', '\n\n', content)
RECURSIVE CollapseBlank(_)
CollapseBlank(s) ==
    IF s = <<>> THEN <<>>
    ELSE IF Len(s) >= 3 /\ s[1] = "\n" /\ s[2] = "\n" /\ s[3] = "\n"
    THEN CollapseBlank(Tail(s))
    ELSE <<Head(s)>> \o CollapseBlank(Tail(s))


----------------------------------------------------------------------------
(* clean_content: the replacement callbacks.  Each returns the replacement *)
(* text and what download_image did to the images directory.               *)

NoDownload(imgs) ==
    [ret |-> None, images |-> imgs, fetched |-> FALSE, outcome |-> "none",
     raised |-> FALSE]

Callback(kind, m, text, url, called, d, repl) ==
    [kind |-> kind, g0 |-> m.g0, text |-> text, url |-> url, called |-> called,
     fetched |-> d.fetched, outcome |-> d.outcome, ret |-> d.ret,
     raised |-> d.raised, images |-> d.images, repl |-> repl]

\* replace_nested_image(match)
ReplaceNestedImage(m, imgs, outcome) ==
    LET alt_text == AltText(m.g1)
        outer_url == m.g2
        d == DownloadImage(outer_url, imgs, outcome)
    IN  IF StartsWithHttp(outer_url)
        THEN Callback("nested", m, alt_text, outer_url, TRUE, d,
                      IF d.ret # None THEN LocalImage(alt_text, d.ret) ELSE alt_text)
        ELSE Callback("nested", m, alt_text, outer_url, FALSE, NoDownload(imgs), m.g0)

\* replace_image that keeps the remote url after a successful download
ReplaceImageKeepsUrl(m, imgs, outcome) ==
    LET alt_text == m.g1
        url == m.g2
        d == DownloadImage(url, imgs, outcome)
    IN  IF ~StartsWithHttp(url)
        THEN Callback("image", m, alt_text, url, FALSE, NoDownload(imgs), m.g0)
        ELSE Callback("image", m, alt_text, url, TRUE, d,
                      IF d.ret # None THEN m.g0 ELSE alt_text)

\* replace_image(match)
ReplaceImage(m, imgs, outcome) ==
    LET alt_text == m.g1
        url == m.g2
        d == DownloadImage(url, imgs, outcome)
    IN  IF ~StartsWithHttp(url)
        THEN Callback("image", m, alt_text, url, FALSE, NoDownload(imgs), m.g0)
        ELSE Callback("image", m, alt_text, url, TRUE, d,
                      IF d.ret # None THEN LocalImage(alt_text, d.ret) ELSE alt_text)

\* replace_link(match)
ReplaceLink(m, imgs, outcome) ==
    LET text == m.g1
        url == m.g2
        d == DownloadImage(url, imgs, outcome)
    IN  IF StartsWithHash(url)
        THEN Callback("link", m, text, url, FALSE, NoDownload(imgs), m.g0)
        ELSE IF StartsWithHttp(url) /\ EndsWithImageExt(url)
        THEN Callback("link", m, text, url, TRUE, d,
                      IF d.ret # None THEN LocalImage(text, d.ret) ELSE text)
        ELSE Callback("link", m, text, url, FALSE, NoDownload(imgs), text)

----------------------------------------------------------------------------
(* clean_content(content, title, images_dir), one step per loop iteration  *)
(* and one per replacement callback                                        *)

HeadingMark == <<"#", " ">>

\* entry: content.split('\n'), cleaned_lines = [], found_first_heading = False
CleanBegin ==
    /\ pc = "clean"
    /\ lines' = Split(content)
    /\ idx' = 1
    /\ cleaned_lines' = <<>>
    /\ found_first_heading' = FALSE
    /\ pc' = "line"
    /\ UNCHANGED <<content, title, line, pos, acc, fetchVars, result, nameVars,
                   bookVars, epubVars>>

\* the loop body without the found_first_heading test: every heading line
\* is replaced
LineStepEveryHeading ==
    /\ pc = "line"
    /\ idx <= Len(lines)
    /\ LET l == lines[idx]
       IN  IF StartsWith(Strip(l), HeadingMark)
           THEN /\ cleaned_lines' = Append(cleaned_lines, HeadingMark \o title)
                /\ found_first_heading' = TRUE
                /\ idx' = idx + 1
                /\ UNCHANGED <<pc, line, pos, acc>>
           ELSE IF cleaned_lines = <<>> /\ Strip(l) = <<>>
           THEN /\ idx' = idx + 1
                /\ UNCHANGED <<pc, cleaned_lines, found_first_heading, line, pos, acc>>
           ELSE /\ line' = l
                /\ pos' = 1
                /\ acc' = <<>>
                /\ pc' = "nested"
                /\ UNCHANGED <<idx, cleaned_lines, found_first_heading>>
    /\ UNCHANGED <<content, title, lines, fetchVars, result, nameVars, bookVars,
                   epubVars>>

\* top of the loop body: the first heading, the leading empty lines, or the
\* start of the three substitutions
LineStep ==
    /\ pc = "line"
    /\ idx <= Len(lines)
    /\ LET l == lines[idx]
       IN  IF ~found_first_heading /\ StartsWith(Strip(l), HeadingMark)
           THEN /\ cleaned_lines' = Append(cleaned_lines, HeadingMark \o title)
                /\ found_first_heading' = TRUE
                /\ idx' = idx + 1
                /\ UNCHANGED <<pc, line, pos, acc>>
           ELSE IF cleaned_lines = <<>> /\ Strip(l) = <<>>
           THEN /\ idx' = idx + 1
                /\ UNCHANGED <<pc, cleaned_lines, found_first_heading, line, pos, acc>>
           ELSE /\ line' = l
                /\ pos' = 1
                /\ acc' = <<>>
                /\ pc' = "nested"
                /\ UNCHANGED <<idx, cleaned_lines, found_first_heading>>
    /\ UNCHANGED <<content, title, lines, fetchVars, result, nameVars, bookVars,
                   epubVars>>

\* what a callback leaves in the log
Entry(cb) ==
    [kind |-> cb.kind, g0 |-> cb.g0, text |-> cb.text, url |-> cb.url,
     called |-> cb.called, fetched |-> cb.fetched, outcome |-> cb.outcome,
     ret |-> cb.ret, repl |-> cb.repl]

\* one replacement of a re.sub in progress; an exception that leaves the
\* callback is caught nowhere and ends the script
Replaced(m, cb) ==
    /\ images' = cb.images
    /\ fetches' = IF cb.fetched THEN Append(fetches, cb.url) ELSE fetches
    /\ log' = Append(log, Entry(cb))
    /\ IF cb.raised
       THEN /\ pc' = "aborted"
            /\ UNCHANGED <<acc, pos>>
       ELSE /\ acc' = acc \o SubSeq(line, pos, m.start - 1) \o cb.repl
            /\ pos' = m.end + 1
            /\ UNCHANGED pc
    /\ UNCHANGED <<line, idx, cleaned_lines>>

\* the value re.sub returns once no further match is found
SubResult == acc \o SubSeq(line, pos, Len(line))

\* line = re.sub(<nested image link>, replace_nested_image, line)
SubNested ==
    /\ pc = "nested"
    /\ LET m == NestedSearch(line, pos)
       IN  IF m.found
           THEN \E outcome \in Outcomes : Replaced(m, ReplaceNestedImage(m, images, outcome))
           ELSE /\ line' = SubResult
                /\ pos' = 1
                /\ acc' = <<>>
                /\ pc' = "image"
                /\ UNCHANGED <<idx, cleaned_lines, fetchVars>>
    /\ UNCHANGED <<content, title, lines, found_first_heading, result, nameVars,
                   bookVars, epubVars>>

\* line = re.sub(r'!\[(.*?)\]\((.*?)\)', replace_image, line)
SubImage ==
    /\ pc = "image"
    /\ LET m == ImageSearch(line, pos)
       IN  IF m.found
           THEN \E outcome \in Outcomes : Replaced(m, ReplaceImage(m, images, outcome))
           ELSE /\ line' = SubResult
                /\ pos' = 1
                /\ acc' = <<>>
                /\ pc' = "link"
                /\ UNCHANGED <<idx, cleaned_lines, fetchVars>>
    /\ UNCHANGED <<content, title, lines, found_first_heading, result, nameVars,
                   bookVars, epubVars>>

\* line = re.sub(r'(?<!!)\[(.*?)\]\((.*?)\)', replace_link, line), then
\* cleaned_lines.append(line)
SubLink ==
    /\ pc = "link"
    /\ LET m == LinkSearch(line, pos)
       IN  IF m.found
           THEN \E outcome \in Outcomes : Replaced(m, ReplaceLink(m, images, outcome))
           ELSE /\ cleaned_lines' = Append(cleaned_lines, SubResult)
                /\ idx' = idx + 1
                /\ line' = <<>>
                /\ pos' = 1
                /\ acc' = <<>>
                /\ pc' = "line"
                /\ UNCHANGED fetchVars
    /\ UNCHANGED <<content, title, lines, found_first_heading, result, nameVars,
                   bookVars, epubVars>>

\* after the loop: join, collapse the blank lines, rstrip, one newline
CleanedText(ls) == RStrip(CollapseBlank(Join(ls))) \o <<"\n">>

CleanReturn ==
    /\ pc = "line"
    /\ idx > Len(lines)
    /\ chapter_num = 0
    /\ result' = CleanedText(cleaned_lines)
    /\ pc' = "done"
    /\ UNCHANGED <<cleanVars, fetchVars, nameVars, bookVars, epubVars>>

----------------------------------------------------------------------------
(* Chapter texts                                                           *)

Img(alt, url) == <<"!", "[">> \o alt \o <<"]", "(">> \o url \o <<")">>

Link(text, url) == <<"[">> \o text \o <<"]", "(">> \o url \o <<")">>

RemotePng   == <<"http://", "h", "/", "p", ".png">>
RemotePNG   == <<"http://", "h", "/", "p", ".PNG">>
RemotePage  == <<"http://", "h", "/", "p">>
RemoteQuery == <<"http://", "h", "/", "p", ".png", "?", "q">>
RemoteParen == <<"http://", "h", "/", "p", "(", "q", ")">>
LocalPng    == <<"p", ".png">>
ImagesPng   == <<"images/", "p", ".png">>
Anchor      == <<"#", "p">>

RemoteUrls == {RemotePng, RemotePNG, RemotePage, RemoteQuery, RemoteParen}

Words == {<<"a">>}

Items ==
    {<<"a">>, <<"b">>, <<" ">>, <<"\n">>, <<"!">>, <<"[">>, <<"#", " ", "a">>}
    \cup {Img(w, u) : w \in Words \cup {<<>>}, u \in {RemotePng, RemotePage}}
    \cup {Img(w, u) : w \in Words, u \in {LocalPng, ImagesPng}}
    \cup {Link(w, u) : w \in Words, u \in RemoteUrls \cup {LocalPng, Anchor}}
    \cup {Link(<<"[">> \o w \o <<"]">>, RemotePage) : w \in Words}
    \cup {Link(Img(w, ImagesPng), RemotePng) : w \in Words}

RECURSIVE ItemSeqs(_)
ItemSeqs(n) ==
    IF n = 0 THEN {<<>>}
    ELSE LET shorter == ItemSeqs(n - 1)
         IN  shorter \cup {s \o i : s \in shorter, i \in Items}

Idle ==
    /\ lines = <<>> /\ idx = 0 /\ cleaned_lines = <<>> /\ found_first_heading = FALSE
    /\ line = <<>> /\ pos = 0 /\ acc = <<>>
    /\ fetches = <<>> /\ log = <<>> /\ result = None
    /\ filenames = <<>> /\ common_prefix = <<>> /\ common_suffix = <<>>
    /\ book_dir = <<>> /\ files = <<>> /\ chapter_num = 0 /\ dest = {}
    /\ md_files = <<>> /\ cover_image_name = None /\ cover = None

Init ==
    /\ pc = "clean"
    /\ content \in ItemSeqs(MaxItems)
    /\ title = <<"T">>
    /\ images = {}
    /\ Idle

Next == CleanBegin \/ LineStep \/ SubNested \/ SubImage \/ SubLink \/ CleanReturn

Spec == Init /\ [][Next]_vars

(* Chapter texts made of whole lines: empty lines, paragraphs, lines of    *)
(* white space and lines that hold nothing but a link without text         *)

LinePool == {<<>>, <<"a">>, <<" ">>, Link(<<>>, RemotePage)}

RECURSIVE LineSeqs(_)
LineSeqs(n) ==
    IF n = 0 THEN {<<>>}
    ELSE LET shorter == LineSeqs(n - 1)
         IN  shorter \cup {Append(s, l) : s \in shorter, l \in LinePool}

InitBlank ==
    /\ pc = "clean"
    /\ content \in {Join(ls) : ls \in LineSeqs(MaxLines)}
    /\ title = <<"T">>
    /\ images = {}
    /\ Idle

SpecBlank == InitBlank /\ [][Next]_vars

----------------------------------------------------------------------------
(* The image fetcher called on its own                                     *)

FetchUrls == {RemotePng, RemotePage, RemoteQuery}

\* one call download_image(url, images_dir)
Fetch ==
    /\ pc = "fetch"
    /\ Len(log) < MaxCalls
    /\ \E url \in FetchUrls, outcome \in Outcomes :
          LET d == DownloadImage(url, images, outcome)
          IN  /\ images' = d.images
              /\ fetches' = IF d.fetched THEN Append(fetches, url) ELSE fetches
              /\ log' = Append(log, [kind |-> "call", g0 |-> <<>>, text |-> <<>>,
                                     url |-> url, called |-> TRUE,
                                     fetched |-> d.fetched, outcome |-> d.outcome,
                                     ret |-> d.ret, repl |-> <<>>])
              /\ result' = d.ret
              /\ pc' = IF d.raised THEN "aborted" ELSE "fetch"
    /\ UNCHANGED <<cleanVars, nameVars, bookVars, epubVars>>

InitFetch ==
    /\ pc = "fetch"
    /\ content = <<>> /\ title = <<>>
    /\ images \in SUBSET {LocalName(u) : u \in FetchUrls}
    /\ Idle

NextFetch == Fetch

SpecFetch == InitFetch /\ [][NextFetch]_vars

----------------------------------------------------------------------------
(* Claims about the content cleaner and the image fetcher                  *)

\* the urls of the image references ![alt](url) present in a text
ImageUrlsOf(text) ==
    {ImageAt(text, s).g2 : s \in {t \in 1..Len(text) : ImageAt(text, t).found}}

ImagesDir == <<"images/">>

SimpleUrls == {RemotePng, RemotePNG, RemotePage, RemoteQuery, LocalPng, ImagesPng}

PathEndsWithImageExt(url) ==
    LET path == UrlPath(url) IN path # <<>> /\ Lower(Last(path)) \in ImageExts

\* the link targets that are neither an anchor nor an image
PageUrls == {RemotePage, RemoteParen}

\* C4 as stated: after clean_content no hyperlink to a target that is
\* neither an anchor nor an image is left in the text, and a text that is
\* one such hyperlink [text](url) is returned as its text alone
C4_ExternalLinksBecomeText ==
    pc = "done" =>
       /\ \A s \in 1..Len(result) :
             LET m == LinkAt(result, s)
             IN  m.found => (StartsWithHash(m.g2) \/ EndsWithImageExt(UrlPath(m.g2)))
       /\ \A w \in Words, u \in PageUrls :
             content = Link(w, u) => result = w \o <<"\n">>

\* C10 as stated: a link whose target is a remote URL whose path ends with
\* an image extension is handed to download_image and, when that returns a
\* file name, becomes ![text](images/<local name>), query string or not
C10_ImageLinksDownloaded ==
    /\ \A i \in 1..Len(log) :
          LET e == log[i]
          IN  (e.kind = "link" /\ StartsWithHttp(e.url) /\ PathEndsWithImageExt(e.url)) =>
                 /\ e.called
                 /\ e.ret # None => e.repl = LocalImage(e.text, e.ret)
    /\ pc = "done" =>
          \A w \in Words, u \in {RemotePng, RemotePNG, RemoteQuery} :
             (content = Link(w, u) /\ fetches = <<u>> /\ LocalName(u) \in images
              /\ log[1].ret # None) =>
                result = LocalImage(w, LocalName(u)) \o <<"\n">>

\* the index in ls of the k-th line that is not empty, 0 if there is none
NthContentLine(ls, k) ==
    LET hits == {i \in 1..Len(ls) :
                    ls[i] # <<>> /\ Cardinality({j \in 1..i : ls[j] # <<>>}) = k}
    IN  IF hits = {} THEN 0 ELSE Min(hits)

\* the lines of the returned text, without the piece after its last newline
OutputLines == LET ls == Split(result) IN SubSeq(ls, 1, Len(ls) - 1)

\* C8 as stated: wherever the cleaned lines hold three or more empty lines in
\* a row before a line with content, the returned text holds exactly one
\* empty line before that line
C8_BlankRunsBecomeOneBlankLine ==
    pc = "done" =>
       \A i \in 1..Len(cleaned_lines), j \in 1..Len(cleaned_lines) :
          ( /\ j >= i + 2 /\ j < Len(cleaned_lines)
            /\ \A k \in i..j : cleaned_lines[k] = <<>>
            /\ Strip(cleaned_lines[j + 1]) # <<>> ) =>
             LET q == NthContentLine(OutputLines,
                         Cardinality({k \in 1..j + 1 : cleaned_lines[k] # <<>>}))
             IN  /\ q >= 2
                 /\ OutputLines[q - 1] = <<>>
                 /\ (q = 2 \/ OutputLines[q - 2] # <<>>)

\* C3 as stated: two successive calls with the same URL, the file absent
\* before the first, make exactly one network fetch
C3_TwoCallsOneFetch ==
    \A i \in 1..Len(log) - 1 :
       (log[i].url = log[i + 1].url /\ log[i].outcome # "cached") =>
          Cardinality({k \in {i, i + 1} : log[k].fetched}) = 1

\* C3 amended: two successive calls with the same URL, the file absent before
\* the first, make exactly one network fetch when the first call leaves the
\* file in the images directory (its fetch succeeded, or failed after the
\* file was created), and two when the first fetch fails and leaves no file
C3_TwoCallsOneFetchIfFileLeft ==
    \A i \in 1..Len(log) - 1 :
       (log[i].url = log[i + 1].url /\ log[i].outcome # "cached") =>
          /\ log[i].fetched
          /\ Cardinality({k \in {i, i + 1} : log[k].fetched}) =
                (IF log[i].outcome = "fail" THEN 2 ELSE 1)
          /\ log[i].outcome = "ok" =>
                (log[i + 1].outcome = "cached" /\ log[i + 1].ret = log[i].ret)

\* C3 witness: two calls in all, a fetch that succeeded followed by a call
\* with the same URL that was served from the directory
C3_Witness ==
    /\ \E i \in 1..Len(log) - 1 :
          /\ log[i].url = log[i + 1].url
          /\ log[i].outcome = "ok" /\ ~log[i + 1].fetched
    /\ Len(fetches) = 1 /\ Len(log) = 2

----------------------------------------------------------------------------
(* Filename normaliser                                                     *)

\* str.replace('.md', ''): every occurrence goes, not only the extension
RECURSIVE RemoveMd(_)
RemoveMd(name) ==
    IF name = <<>> THEN <<>>
    ELSE IF Head(name) = ".md" THEN RemoveMd(Tail(name))
    ELSE <<Head(name)>> \o RemoveMd(Tail(name))

Separator == <<" ", "-", " ">>

\* the 1-based places where ' - ' starts in s
SeparatorsIn(s) == {i \in 1..Len(s) - 2 : SubSeq(s, i, i + 2) = Separator}

\* the number of leading characters a and b share
CommonLead(a, b) ==
    LET agree == {i \in 0..Len(a) : i <= Len(b) /\ SubSeq(a, 1, i) = SubSeq(b, 1, i)}
    IN  Max(agree)

\* the number of trailing characters a and b share
CommonTrail(a, b) ==
    LET agree == {i \in 0..Len(a) :
                     /\ i <= Len(b)
                     /\ SubSeq(a, Len(a) - i + 1, Len(a)) = SubSeq(b, Len(b) - i + 1, Len(b))}
    IN  Max(agree)

\* the loop over names[1:] that shortens the prefix
RECURSIVE PrefixLoop(_, _)
PrefixLoop(prefix, names) ==
    IF names = <<>> \/ prefix = <<>> THEN prefix
    ELSE PrefixLoop(SubSeq(prefix, 1, CommonLead(prefix, Head(names))), Tail(names))

\* find_common_prefix without the cut after the last ' - '
FindCommonPrefixUncut(fnames) ==
    IF fnames = <<>> THEN <<>>
    ELSE LET names == [i \in 1..Len(fnames) |-> RemoveMd(fnames[i])]
             raw == PrefixLoop(names[1], Tail(names))
         IN  IF Len(raw) > 3 THEN raw ELSE <<>>

\* find_common_prefix(filenames)
FindCommonPrefix(fnames) ==
    IF fnames = <<>> THEN <<>>
    ELSE LET names == [i \in 1..Len(fnames) |-> RemoveMd(fnames[i])]
             raw == PrefixLoop(names[1], Tail(names))
             seps == SeparatorsIn(raw)
             prefix == IF seps # {} /\ Max(seps) - 1 > 0
                       THEN SubSeq(raw, 1, Max(seps) - 1 + 3) ELSE raw
         IN  IF Len(prefix) > 3 THEN prefix ELSE <<>>

\* the loop over names[1:] that shortens the suffix
RECURSIVE SuffixLoop(_, _)
SuffixLoop(suffix, names) ==
    IF names = <<>> \/ suffix = <<>> THEN suffix
    ELSE LET k == CommonTrail(suffix, Head(names))
         IN  SuffixLoop(SubSeq(suffix, Len(suffix) - k + 1, Len(suffix)), Tail(names))

\* find_common_suffix(filenames)
FindCommonSuffix(fnames) ==
    IF fnames = <<>> THEN <<>>
    ELSE LET names == [i \in 1..Len(fnames) |-> RemoveMd(fnames[i])]
             raw == SuffixLoop(names[1], Tail(names))
             seps == SeparatorsIn(raw)
             suffix == IF seps # {} THEN SubSeq(raw, Min(seps), Len(raw)) ELSE raw
         IN  IF Len(suffix) > 3 THEN suffix ELSE <<>>

\* clean_filename(original_filename, common_prefix, common_suffix)
CleanFilename(original_filename, prefix, suffix) ==
    LET bare == RemoveMd(original_filename)
        cut1 == IF prefix # <<>> /\ StartsWith(bare, prefix)
                THEN SubSeq(bare, Len(prefix) + 1, Len(bare)) ELSE bare
        cut2 == IF suffix # <<>> /\ EndsWith(cut1, suffix)
                THEN SubSeq(cut1, 1, Len(cut1) - Len(suffix)) ELSE cut1
    IN  Strip(cut2) \o <<".md">>

BlogPart == <<"B", "l", "o", "g", " ", "-", " ", "P", "a", "r", "t", " ">>

Prefixes == {BlogPart, <<"B", "l", "o", "g", " ">>, <<"N">>}

Tails == {<<>>, <<"1">>, <<"2">>, <<"1", " ">>, <<"2", ".md", "1">>}

NamePool == {p \o t \o <<".md">> : p \in Prefixes, t \in Tails}

RECURSIVE NameLists(_)
NameLists(n) ==
    IF n = 0 THEN {<<>>}
    ELSE LET shorter == NameLists(n - 1)
         IN  shorter \cup {Append(s, f) : s \in shorter, f \in NamePool}

\* common_prefix = find_common_prefix(filenames)
FindPrefix ==
    /\ pc = "names"
    /\ common_prefix' = FindCommonPrefix(filenames)
    /\ pc' = "prefixed"
    /\ UNCHANGED <<cleanVars, fetchVars, result, filenames, common_suffix, bookVars,
                   epubVars>>

\* clean_filename(name, common_prefix) for every name of the list
CleanNames ==
    /\ pc = "prefixed"
    /\ result' = [i \in 1..Len(filenames) |->
                     CleanFilename(filenames[i], common_prefix, <<>>)]
    /\ pc' = "named"
    /\ UNCHANGED <<cleanVars, fetchVars, nameVars, bookVars, epubVars>>

InitNames ==
    /\ pc = "names"
    /\ content = <<>> /\ title = <<>>
    /\ images = {}
    /\ lines = <<>> /\ idx = 0 /\ cleaned_lines = <<>> /\ found_first_heading = FALSE
    /\ line = <<>> /\ pos = 0 /\ acc = <<>>
    /\ fetches = <<>> /\ log = <<>> /\ result = None
    /\ filenames \in NameLists(MaxNames)
    /\ common_prefix = <<>> /\ common_suffix = <<>>
    /\ book_dir = <<>> /\ files = <<>> /\ chapter_num = 0 /\ dest = {}
    /\ md_files = <<>> /\ cover_image_name = None /\ cover = None

NextNames == FindPrefix \/ CleanNames

SpecNames == InitNames /\ [][NextNames]_vars

\* the common leading text of all names, extension removed
RawCommonPrefix(fnames) ==
    LET names == [i \in 1..Len(fnames) |-> RemoveMd(fnames[i])]
        ks == {k \in 0..Len(names[1]) :
                  \A i \in 1..Len(names) :
                     Len(names[i]) >= k /\ SubSeq(names[i], 1, k) = SubSeq(names[1], 1, k)}
    IN  SubSeq(names[1], 1, Max(ks))

\* the names end in no common character, extension removed
NoCommonSuffix(fnames) ==
    \E i \in 1..Len(fnames), j \in 1..Len(fnames) :
       CommonTrail(RemoveMd(fnames[i]), RemoveMd(fnames[j])) = 0

\* two or more names that start with "Blog - Part ", diverge right after it
\* and share no suffix
BlogPartList ==
    /\ Len(filenames) >= 2
    /\ RawCommonPrefix(filenames) = BlogPart
    /\ NoCommonSuffix(filenames)

\* C2 as stated: the normaliser removes exactly "Blog - Part " from the front
\* of every such name and keeps the rest of the name unchanged
C2_StripsBlogPart ==
    (pc = "named" /\ BlogPartList) =>
       \A i \in 1..Len(filenames) :
          result[i] = SubSeq(filenames[i], Len(BlogPart) + 1, Len(filenames[i]))

BlogCut == <<"B", "l", "o", "g", " ", "-", " ">>

\* C2 amended: for such a list the prefix found is "Blog - ", the common
\* prefix cut back to end after its last " - "; exactly that is removed from
\* the front of every name, and what follows it ("Part " and the name's own
\* suffix) is kept, trimmed of surrounding white space and of every ".md"
C2_StripsBlogCut ==
    (pc = "named" /\ BlogPartList) =>
       /\ common_prefix = BlogCut
       /\ \A i \in 1..Len(filenames) :
             LET bare == RemoveMd(filenames[i])
                 tail == SubSeq(bare, Len(BlogPart) + 1, Len(bare))
             IN  /\ StartsWith(bare, BlogCut)
                 /\ result[i] = Strip(<<"P", "a", "r", "t", " ">> \o tail) \o <<".md">>

\* C2 witness: such a list, cleaned, with one name that has a suffix of its own
C2_Witness ==
    /\ pc = "named" /\ BlogPartList
    /\ \E i \in 1..Len(filenames) : result[i] = <<"P", "a", "r", "t", " ", "1", ".md">>


----------------------------------------------------------------------------
(* clean_markdown_files(book_dir, dest_dir)                                *)

\* md_files.sort(key=lambda x: x[1]): ascending mtime, equal mtimes keep their order
SortByMtime(s) ==
    LET before(i, j) == \/ s[i].mtime < s[j].mtime
                        \/ s[i].mtime = s[j].mtime /\ i < j
        place == [j \in 1..Len(s) |-> Cardinality({i \in 1..Len(s) : before(i, j)}) + 1]
    IN  [k \in 1..Len(s) |-> s[CHOOSE j \in 1..Len(s) : place[j] = k]]

IsMarkdown(f) == EndsWith(f.name, <<".md">>)

\* the files whose name ends with .md, in walk order
MarkdownOnly(s) == SelectSeq(s, IsMarkdown)

\* get_files_by_timestamp that forgets to sort
GetFilesInWalkOrder(dir) == MarkdownOnly(dir)

\* get_files_by_timestamp(source_dir): list.sort is stable
GetFilesByTimestamp(dir) == SortByMtime(MarkdownOnly(dir))

\* f"{chapter_num:02d}": at least two digits
Fmt02(n) == IF n < 10 THEN <<"0">> \o Digits(n) ELSE Digits(n)

\* f"{chapter_num:02d} - {cleaned_name}"
NewFilename(n, cleaned_name) == Fmt02(n) \o Separator \o cleaned_name

\* entry up to the loop: the sorted files, the common prefix and suffix
BookBegin ==
    /\ pc = "book"
    /\ LET fs == GetFilesByTimestamp(book_dir)
           names == [i \in 1..Len(fs) |-> fs[i].name]
       IN  /\ files' = fs
           /\ IF fs = <<>>
              THEN /\ result' = FALSE
                   /\ pc' = "no_files"
                   /\ UNCHANGED <<nameVars, chapter_num>>
              ELSE /\ filenames' = names
                   /\ common_prefix' = FindCommonPrefix(names)
                   /\ common_suffix' = FindCommonSuffix(names)
                   /\ chapter_num' = 1
                   /\ pc' = "file"
                   /\ UNCHANGED result
    /\ UNCHANGED <<cleanVars, fetchVars, book_dir, dest, epubVars>>

\* loop body up to the call clean_content(content, title, images_dir)
ProcessFile ==
    /\ pc = "file"
    /\ chapter_num <= Len(files)
    /\ LET cleaned_name == CleanFilename(files[chapter_num].name, common_prefix,
                                         common_suffix)
       IN  /\ content' = files[chapter_num].text
           /\ title' = RemoveMd(cleaned_name)
    /\ pc' = "clean"
    /\ UNCHANGED <<lines, idx, cleaned_lines, found_first_heading, line, pos, acc,
                   fetchVars, result, nameVars, bookVars, epubVars>>

\* clean_content returns into the loop, which writes the chapter
WriteFile ==
    /\ pc = "line"
    /\ idx > Len(lines)
    /\ chapter_num >= 1
    /\ \E cleaned_name \in {CleanFilename(files[chapter_num].name, common_prefix,
                                          common_suffix)} :
          \E new_filename \in {NewFilename(chapter_num, cleaned_name)} :
             dest' = {d \in dest : d.name # new_filename} \cup
                     {[name |-> new_filename, text |-> CleanedText(cleaned_lines),
                       num |-> chapter_num, id |-> files[chapter_num].id]}
    /\ chapter_num' = chapter_num + 1
    /\ pc' = "file"
    /\ UNCHANGED <<cleanVars, fetchVars, result, nameVars, book_dir, files, epubVars>>

\* after the loop: return True
BookReturn ==
    /\ pc = "file"
    /\ chapter_num > Len(files)
    /\ result' = TRUE
    /\ pc' = "cleaned"
    /\ UNCHANGED <<cleanVars, fetchVars, nameVars, bookVars, epubVars>>

----------------------------------------------------------------------------
(* build_epub.py                                                           *)

\* the tokens of file names in the order of their strings (code points); none
\* is the beginning of another, so names compare token by token
TokenOrder == <<" ", "-", ".PNG", ".gif", ".jpeg", ".jpg", ".md", ".png", ".svg", ".webp",
                "0", "1", "2", "3", "4", "5", "6", "7", "8", "9",
                "B", "a", "b", "cover", "g", "image_", "l", "o", "p", "x">>

Ord(t) == CHOOSE i \in 1..Len(TokenOrder) : TokenOrder[i] = t

\* a < b as Python compares strings
RECURSIVE LexLess(_, _)
LexLess(a, b) ==
    IF b = <<>> THEN FALSE
    ELSE IF a = <<>> THEN TRUE
    ELSE IF Head(a) = Head(b) THEN LexLess(Tail(a), Tail(b))
    ELSE Ord(Head(a)) < Ord(Head(b))

\* sorted(...) of a set of names
SortNames(S) ==
    LET place == [x \in S |-> Cardinality({y \in S : LexLess(y, x)}) + 1]
    IN  [k \in 1..Cardinality(S) |-> CHOOSE x \in S : place[x] = k]

\* Path.suffix
Suffix(name) == IF Len(name) >= 2 /\ Last(name) \in Dotted THEN Last(name) ELSE ""

\* find_first_image(markdown_content)
FindFirstImage(markdown_content) ==
    LET m == ImageSearch(markdown_content, 1)
    IN  IF m.found
        THEN LET img_path == m.g2
                 dirs == {i \in 1..Len(img_path) : img_path[i] = "images/"}
             IN  IF dirs # {} THEN SubSeq(img_path, Max(dirs) + 1, Len(img_path))
                 ELSE img_path
        ELSE None

CoverExts == <<".webp", ".png", ".jpg", ".jpeg">>

\* for ext in ['.webp', '.png', '.jpg', '.jpeg']: cover{ext} if it exists
NamedCover(imgs) ==
    LET hits == {k \in 1..Len(CoverExts) : <<"cover", CoverExts[k]>> \in imgs}
    IN  IF hits = {} THEN None ELSE <<"cover", CoverExts[Min(hits)]>>

\* the first truthy find_first_image over md_files, in their order
FirstReferenced(names, dir) ==
    LET found(k) == FindFirstImage((CHOOSE d \in dir : d.name = names[k]).text)
        hits == {k \in 1..Len(names) : found(k) # None}
    IN  IF hits = {} THEN None ELSE found(Min(hits))

\* the first of the sorted .jpg/.jpeg/.png/.webp files of the images directory
FirstImageFile(imgs) ==
    LET image_files == SortNames({f \in imgs :
                          Lower(Suffix(f)) \in {".jpg", ".jpeg", ".png", ".webp"}})
    IN  IF image_files = <<>> THEN None ELSE image_files[1]

\* create_epub(book_dir, output_file, book_title); the files of the images
\* directory are taken to hold at least one byte
CreateEpub ==
    /\ pc = "cleaned"
    /\ \E sorted \in {SortNames({d.name : d \in {e \in dest : EndsWith(e.name, <<".md">>)}})} :
       LET named == NamedCover(images)
           referenced == IF named # None THEN named ELSE FirstReferenced(sorted, dest)
           chosen == IF referenced # None THEN referenced ELSE FirstImageFile(images)
       IN  IF sorted = <<>>
           THEN /\ result' = FALSE
                /\ pc' = "no_chapters"
                /\ UNCHANGED epubVars
           ELSE /\ md_files' = sorted
                /\ cover_image_name' = chosen
                /\ cover' = IF chosen # None /\ chosen \in images /\ Suffix(chosen) # ""
                            THEN chosen ELSE None
                /\ result' = TRUE
                /\ pc' = "built"
    /\ UNCHANGED <<cleanVars, fetchVars, nameVars, bookVars>>

\* book.spine = ['nav'] + chapters
Spine == <<<<"nav">>>> \o md_files

----------------------------------------------------------------------------
(* Books                                                                   *)

Sources ==
    {[name |-> <<"B", "l", "o", "g", " ", "-", " ", "a", ".md">>,
      text |-> Link(<<"a">>, RemotePNG)],
     [name |-> <<"B", "l", "o", "g", " ", "-", " ", "b", ".md">>,
      text |-> Img(<<"a">>, RemotePng)],
     [name |-> <<"x", ".md">>, text |-> Link(Img(<<"a">>, ImagesPng), RemotePng)],
     [name |-> <<"n", ".txt">>, text |-> <<"a">>]}

RECURSIVE Listings(_)
Listings(n) ==
    IF n = 0 THEN {<<>>}
    ELSE LET shorter == Listings(n - 1)
         IN  shorter \cup
             {Append(s, [id |-> Len(s) + 1, name |-> f.name, mtime |-> t, text |-> f.text]) :
                 s \in {x \in shorter : Len(x) = n - 1}, f \in Sources, t \in 1..MaxMtime}

\* a long book: p1.md, p2.md, ... saved one after the other
LongListing ==
    [i \in 1..LongBook |->
        [id |-> i, name |-> <<"p">> \o Digits(i) \o <<".md">>, mtime |-> i,
         text |-> <<"a">>]]

InitBook ==
    /\ pc = "book"
    /\ book_dir \in Listings(MaxFiles) \cup {LongListing}
    /\ content = <<>> /\ title = <<>>
    /\ images = {}
    /\ lines = <<>> /\ idx = 0 /\ cleaned_lines = <<>> /\ found_first_heading = FALSE
    /\ line = <<>> /\ pos = 0 /\ acc = <<>>
    /\ fetches = <<>> /\ log = <<>> /\ result = None
    /\ filenames = <<>> /\ common_prefix = <<>> /\ common_suffix = <<>>
    /\ files = <<>> /\ chapter_num = 0 /\ dest = {}
    /\ md_files = <<>> /\ cover_image_name = None /\ cover = None

NextBook ==
    \/ BookBegin \/ ProcessFile \/ CleanBegin \/ LineStep \/ SubNested \/ SubImage
    \/ SubLink \/ WriteFile \/ BookReturn \/ CreateEpub

SpecBook == InitBook /\ [][NextBook]_vars

(* A cleaned book as create_epub may find it: chapter files, and an images *)
(* directory that holds downloads and whatever the user put there          *)

ChapterTexts ==
    {<<"a", "\n">>,
     Img(<<"a">>, <<"images/", "image_", "1", ".png">>) \o <<"\n">>,
     <<"a", "\n">> \o Img(<<"a">>, <<"p", ".png">>) \o <<"\n">>,
     Img(<<>>, <<"images/", "b", ".gif">>) \o <<"\n">>}

ImagePool == {<<"cover", ".png">>, <<"cover", ".gif">>, <<"image_", "1", ".png">>,
              <<"b", ".gif">>, <<"a", ".jpg">>}

RECURSIVE Cleaned(_)
Cleaned(n) ==
    IF n = 0 THEN {{}}
    ELSE LET fewer == Cleaned(n - 1)
         IN  fewer \cup
             {d \cup {[name |-> NewFilename(n, <<"a", ".md">>), text |-> t, num |-> n,
                       id |-> n]} : d \in {x \in fewer : Cardinality(x) = n - 1},
                                    t \in ChapterTexts}

InitEpub ==
    /\ pc = "cleaned"
    /\ dest \in Cleaned(MaxChapters)
    /\ images \in SUBSET ImagePool
    /\ content = <<>> /\ title = <<>>
    /\ lines = <<>> /\ idx = 0 /\ cleaned_lines = <<>> /\ found_first_heading = FALSE
    /\ line = <<>> /\ pos = 0 /\ acc = <<>>
    /\ fetches = <<>> /\ log = <<>> /\ result = None
    /\ filenames = <<>> /\ common_prefix = <<>> /\ common_suffix = <<>>
    /\ book_dir = <<>> /\ files = <<>> /\ chapter_num = 0
    /\ md_files = <<>> /\ cover_image_name = None /\ cover = None

NextEpub == CreateEpub

SpecEpub == InitEpub /\ [][NextEpub]_vars


----------------------------------------------------------------------------
(* Chapter numbering, failed downloads, chapter order, cover               *)

MarkdownIds == {book_dir[i].id : i \in {j \in 1..Len(book_dir) : IsMarkdown(book_dir[j])}}

\* C5: once clean_markdown_files has returned, the markdown files of the book
\* are numbered 1..n, a file with a strictly older modification time has the
\* smaller number, each file has exactly one output file, named
\* {number:02d} - {cleaned_name}, and no two files share an output name
C5_NumberedByMtime ==
    pc \in {"cleaned", "built"} =>
       /\ Len(files) = Cardinality(MarkdownIds)
       /\ {files[k].id : k \in 1..Len(files)} = MarkdownIds
       /\ \A i \in 1..Len(files), j \in 1..Len(files) :
             files[i].mtime < files[j].mtime => i < j
       /\ \A k \in 1..Len(files) :
             LET out == {d \in dest : d.id = files[k].id}
             IN  /\ Cardinality(out) = 1
                 /\ \A d \in out :
                       /\ d.num = k
                       /\ d.name = Fmt02(k) \o <<" ", "-", " ">> \o
                                   CleanFilename(files[k].name, common_prefix,
                                                 common_suffix)
       /\ Cardinality({d.name : d \in dest}) = Len(files)

\* C5 witness: a finished book of two or more chapters in which a file that
\* the directory walk lists earlier was modified later
C5_Witness ==
    /\ pc = "cleaned"
    /\ Cardinality(dest) >= 2
    /\ \E i \in 1..Len(book_dir), j \in 1..Len(book_dir) :
          /\ i < j /\ IsMarkdown(book_dir[i]) /\ IsMarkdown(book_dir[j])
          /\ book_dir[i].mtime > book_dir[j].mtime

Failed(e) == e.called /\ e.outcome \in {"fail", "partial"}

\* C7: a download that fails never ends the run: download_image returns None,
\* the callback puts the plain text in place of the markup, and
\* clean_markdown_files writes every chapter and returns True; when every
\* download of the book failed, no chapter holds image markup and every
\* chapter comes out as its text alone
C7_FailedDownloadsDegrade ==
    /\ pc # "aborted"
    /\ \A i \in 1..Len(log) :
          Failed(log[i]) => (log[i].ret = None /\ log[i].repl = log[i].text)
    /\ pc = "cleaned" =>
          /\ result = TRUE
          /\ {d.id : d \in dest} = MarkdownIds
          /\ Cardinality(dest) = Cardinality(MarkdownIds)
          /\ (\A i \in 1..Len(log) : Failed(log[i])) =>
                \A d \in dest : d.text = <<"a", "\n">>

\* C7 witness: a finished book of two or more chapters with a failed download
C7_Witness ==
    /\ pc = "cleaned"
    /\ Cardinality(dest) >= 2
    /\ \E i \in 1..Len(log) : Failed(log[i])
    /\ \E d \in dest : d.text = <<"a", "\n">>

\* the chapter number clean_markdown_files gave the file of that name
NumberOf(name) == (CHOOSE d \in dest : d.name = name).num

\* C9 as stated: create_epub enumerates the cleaned files in the order of
\* their chapter numbers, however many chapters there are
C9_SortedIsChapterOrder ==
    pc = "built" => \A k \in 1..Len(md_files) : NumberOf(md_files[k]) = k

\* the files of the images directory named cover.<ext>, for any extension
CoverFiles == {f \in images : Len(f) = 2 /\ f[1] = "cover" /\ Suffix(f) # ""}

\* the files of the images directory with an image extension
ImageFiles == {f \in images : Lower(Suffix(f)) \in ImageExts}

\* the first image a chapter refers to, in chapter order, when the images
\* directory holds it
ReferencedImage ==
    LET name == FirstReferenced(md_files, dest)
    IN  IF name \in images THEN name ELSE None

\* C6 as stated: the cover is a file cover.<ext> if there is one; else the
\* first image referenced in a chapter; else the first image file of the
\* images directory by name; and there is no cover only when all three find
\* nothing
C6_CoverByFirstRule ==
    pc = "built" =>
       IF CoverFiles # {} THEN cover \in CoverFiles
       ELSE IF ReferencedImage # None THEN cover = ReferencedImage
       ELSE IF ImageFiles # {} THEN cover = SortNames(ImageFiles)[1]
       ELSE cover = None

----------------------------------------------------------------------------
(* Headings                                                                *)

(* Chapter texts made of heading lines: plain, with a link, with an image, *)
(* with a trailing space, indented; a second-level heading, a paragraph    *)
(* and an empty line                                                       *)

HeadingPool ==
    {<<"#", " ", "a">>,
     <<"#", " ">> \o Link(<<"a">>, RemotePage),
     <<"#", " ">> \o Img(<<"a">>, RemotePng),
     <<"#", " ", "a", " ">>,
     <<" ", "#", " ", "b">>,
     <<"#", "#", " ", "a">>,
     <<"a">>,
     <<>>}

RECURSIVE HeadingSeqs(_)
HeadingSeqs(n) ==
    IF n = 0 THEN {<<>>}
    ELSE LET shorter == HeadingSeqs(n - 1)
         IN  shorter \cup {Append(s, l) : s \in shorter, l \in HeadingPool}

Titles == {<<"T">>, <<>>}

InitHeading ==
    /\ pc = "clean"
    /\ content \in {Join(ls) : ls \in HeadingSeqs(MaxHeadingLines)}
    /\ title \in Titles
    /\ images = {}
    /\ Idle

SpecHeading == InitHeading /\ [][Next]_vars

\* line.strip().startswith('# ')
IsHeading(l) == StartsWith(Strip(l), HeadingMark)

\* the index in lines of the first heading line, 0 if there is none
FirstHeading ==
    LET hs == {i \in 1..Len(lines) : IsHeading(lines[i])}
    IN  IF hs = {} THEN 0 ELSE Min(hs)

\* the heading lines after the first one
LaterHeadings ==
    IF FirstHeading = 0 THEN {}
    ELSE {i \in FirstHeading + 1..Len(lines) : IsHeading(lines[i])}

\* the number of lines the loop drops at the start of the text
Skipped ==
    LET full == {i \in 1..Len(lines) : Strip(lines[i]) # <<>>}
    IN  IF full = {} THEN Len(lines) ELSE Min(full) - 1

\* what the loop appended for line i
CleanedOf(i) == cleaned_lines[i - Skipped]

\* l holds no image, link or nested image markup
NoMarkup(l) ==
    \A s \in 1..Len(l) :
       ~ImageAt(l, s).found /\ ~LinkAt(l, s).found /\ ~NestedAt(l, s).found

\* nothing but white space follows line i in the cleaned lines
TextEnd(i) == \A m \in i + 1..Len(lines) : Strip(CleanedOf(m)) = <<>>

\* l is a line of the returned text, without its trailing white space when
\* it is the line of input line i and the text ends there
Shown(l, i) ==
    IF TextEnd(i) THEN OutputLines # <<>> /\ Last(OutputLines) = RStrip(l)
    ELSE \E j \in 1..Len(OutputLines) : OutputLines[j] = l

\* C11 as stated: the first heading line is replaced by # <title>, and every
\* later heading line is a line of the returned text, character for
\* character, whatever it contains
C11_LaterHeadingsUnchanged ==
    pc = "done" =>
       /\ FirstHeading # 0 => CleanedOf(FirstHeading) = HeadingMark \o title
       /\ \A i \in LaterHeadings :
             \E j \in 1..Len(OutputLines) : OutputLines[j] = lines[i]

\* C11 amended: the first heading line is replaced by # <title>; a later
\* heading line is not, it goes through the image and link replacements like
\* any other line, so one without such markup is a line of the returned text
\* unchanged, except that the line the text ends with loses its trailing
\* white space
C11_LaterHeadingsOnlyCleaned ==
    pc = "done" =>
       /\ FirstHeading # 0 =>
             /\ CleanedOf(FirstHeading) = HeadingMark \o title
             /\ Shown(HeadingMark \o title, FirstHeading)
       /\ \A i \in LaterHeadings :
             NoMarkup(lines[i]) => (CleanedOf(i) = lines[i] /\ Shown(lines[i], i))

\* C11 witness: a text with a first heading, a later heading without markup
\* that came out unchanged and a later heading whose link was removed
C11_Witness ==
    /\ pc = "done"
    /\ \E i \in LaterHeadings :
          NoMarkup(lines[i]) /\ \E j \in 1..Len(OutputLines) : OutputLines[j] = lines[i]
    /\ \E i \in LaterHeadings : ~NoMarkup(lines[i]) /\ CleanedOf(i) # lines[i]

====
